---- MODULE Spec2Model ----
(* Model of the sandboxed tools of horse: the bash command validator and     *)
(* runner (src/tools/bash.rs), the file reader (src/tools/read_file.rs) and  *)
(* the document search (src/agent/tools/search_docs.rs).                     *)
(* A Rust string is modelled as the sequence of its characters.              *)
EXTENDS Integers, Sequences, FiniteSets, TLC

\* ---------------------------------------------------------------- bounds
MaxAtoms == 5
MaxPatAtoms == 4
MaxPathAtoms == 4
MaxSegs == 3
MaxLineArg == 4
MaxLiveAtoms == 2

\* ------------------------------------------------------- string helpers
\* char::is_whitespace, restricted to the whitespace characters of the model
IsWhitespace(c) == c \in {" ", "\n"}

RECURSIVE TrimStart(_)
TrimStart(s) ==
    IF s # <<>> /\ IsWhitespace(Head(s)) THEN TrimStart(Tail(s)) ELSE s

RECURSIVE TrimEnd(_)
TrimEnd(s) ==
    IF s # <<>> /\ IsWhitespace(s[Len(s)])
    THEN TrimEnd(SubSeq(s, 1, Len(s) - 1)) ELSE s

\* str::trim
Trim(s) == TrimEnd(TrimStart(s))

\* str::contains(&str): literal substring match
Contains(s, p) ==
    \E i \in 1..(Len(s) - Len(p) + 1) : SubSeq(s, i, i + Len(p) - 1) = p

\* str::split_whitespace: the maximal runs of non-whitespace characters
RECURSIVE SplitWhitespaceLoop(_, _, _)
SplitWhitespaceLoop(s, cur, acc) ==
    IF s = <<>>
    THEN IF cur = <<>> THEN acc ELSE Append(acc, cur)
    ELSE IF IsWhitespace(Head(s))
         THEN SplitWhitespaceLoop(Tail(s), <<>>,
                                  IF cur = <<>> THEN acc ELSE Append(acc, cur))
         ELSE SplitWhitespaceLoop(Tail(s), Append(cur, Head(s)), acc)

split_whitespace(s) == SplitWhitespaceLoop(s, <<>>, <<>>)

\* The backtick cannot be written in a string literal; it is modelled by a
\* character of its own.
Backtick == "BQ"

\* ------------------------------------------------------ bash.rs constants
TIMEOUT_SECS == 30

ALLOWED_COMMANDS ==
    << <<"g","r","e","p">>, <<"f","i","n","d">>, <<"c","a","t">>,
       <<"h","e","a","d">>, <<"t","a","i","l">>, <<"l","s">>,
       <<"t","r","e","e">>, <<"w","c">>, <<"f","i","l","e">>, <<"r","g">> >>

FORBIDDEN_PATTERNS ==
    << <<";">>, <<"&","&">>, <<"|","|">>, <<Backtick>>, <<"$","(">>,
       <<">">>, <<"<">>, <<">",">">>, <<"<","<">> >>

Range(f) == {f[i] : i \in DOMAIN f}

\* ------------------------------------------------ split_respecting_quotes
\* Faulty variant of SplitLoop: each quote character toggles its mode
\* whatever the other mode is.
RECURSIVE SplitLoopIndependentQuotes(_, _, _, _, _, _, _, _)
SplitLoopIndependentQuotes(s, delimiter, i, start, in_single_quote, in_double_quote, prev_char, result) ==
    IF i > Len(s)
    THEN IF start < Len(s)
         THEN Append(result, SubSeq(s, start + 1, Len(s)))
         ELSE IF start = Len(s) THEN Append(result, <<>>) ELSE result
    ELSE
      LET c  == s[i]
          sq == IF c = "'" /\ prev_char # "\\"
                THEN ~in_single_quote ELSE in_single_quote
          dq == IF c = "\"" /\ prev_char # "\\"
                THEN ~in_double_quote ELSE in_double_quote
          split == c = delimiter /\ ~sq /\ ~dq
      IN SplitLoopIndependentQuotes(s, delimiter, i + 1,
                   IF split THEN i ELSE start,
                   sq, dq, c,
                   IF split THEN Append(result, SubSeq(s, start + 1, i - 1))
                   ELSE result)

\* One iteration of the `for (i, c) in s.char_indices()` loop; i is 0-based
\* in the source, 1-based here, so &s[start..i] is SubSeq(s, start+1, i-1)
\* with start kept 0-based.
RECURSIVE SplitLoop(_, _, _, _, _, _, _, _)
SplitLoop(s, delimiter, i, start, in_single_quote, in_double_quote, prev_char, result) ==
    IF i > Len(s)
    THEN IF start < Len(s)
         THEN Append(result, SubSeq(s, start + 1, Len(s)))
         ELSE IF start = Len(s) THEN Append(result, <<>>) ELSE result
    ELSE
      LET c  == s[i]
          sq == IF c = "'" /\ prev_char # "\\" /\ ~in_double_quote
                THEN ~in_single_quote ELSE in_single_quote
          dq == IF ~(c = "'" /\ prev_char # "\\" /\ ~in_double_quote)
                   /\ c = "\"" /\ prev_char # "\\" /\ ~in_single_quote
                THEN ~in_double_quote ELSE in_double_quote
          split == c = delimiter /\ ~sq /\ ~dq
      IN SplitLoop(s, delimiter, i + 1,
                   IF split THEN i ELSE start,
                   sq, dq, c,
                   IF split THEN Append(result, SubSeq(s, start + 1, i - 1))
                   ELSE result)

split_respecting_quotes(s, delimiter) ==
    SplitLoop(s, delimiter, 1, 0, FALSE, FALSE, "NUL", <<>>)

\* ------------------------------------------------------- validate_command
\* Result values: Ok(()) and the variants of BashCommandError
OkUnit == [kind |-> "Ok"]
EmptyCommand == [kind |-> "EmptyCommand"]
ForbiddenPattern(p) == [kind |-> "ForbiddenPattern", pattern |-> p]
CommandNotAllowed(w) == [kind |-> "CommandNotAllowed", word |-> w]
Timeout(secs) == [kind |-> "Timeout", secs |-> secs]
Io == [kind |-> "Io"]
CommandFailed(code, text) == [kind |-> "CommandFailed", code |-> code, text |-> text]
\* Ok(output) of a call
OkOutput(text) == [kind |-> "Ok", output |-> text]

\* Faulty variant of FirstForbidden: the scan compares characters, not substrings,
\* so that the patterns of two characters are never found.
FirstForbiddenChar(trimmed) ==
    IF \E k \in DOMAIN FORBIDDEN_PATTERNS :
          Len(FORBIDDEN_PATTERNS[k]) = 1 /\ Contains(trimmed, FORBIDDEN_PATTERNS[k])
    THEN CHOOSE k \in DOMAIN FORBIDDEN_PATTERNS :
            /\ Len(FORBIDDEN_PATTERNS[k]) = 1 /\ Contains(trimmed, FORBIDDEN_PATTERNS[k])
            /\ \A j \in 1..(k - 1) :
                 ~(Len(FORBIDDEN_PATTERNS[j]) = 1 /\ Contains(trimmed, FORBIDDEN_PATTERNS[j]))
    ELSE 0

\* the `for pattern in FORBIDDEN_PATTERNS` loop: index of the first pattern,
\* in list order, that the command contains; 0 when there is none
FirstForbidden(trimmed) ==
    IF \E k \in DOMAIN FORBIDDEN_PATTERNS : Contains(trimmed, FORBIDDEN_PATTERNS[k])
    THEN CHOOSE k \in DOMAIN FORBIDDEN_PATTERNS :
            /\ Contains(trimmed, FORBIDDEN_PATTERNS[k])
            /\ \A j \in 1..(k - 1) : ~Contains(trimmed, FORBIDDEN_PATTERNS[j])
    ELSE 0

\* Faulty variant of IsAllowed: a word is accepted when it begins with an allowed name.
IsAllowedPrefix(first_word) ==
    \E a \in Range(ALLOWED_COMMANDS) :
        Len(a) <= Len(first_word) /\ SubSeq(first_word, 1, Len(a)) = a

\* ALLOWED_COMMANDS.contains(&first_word)
IsAllowed(first_word) == first_word \in Range(ALLOWED_COMMANDS)

\* the `for cmd in commands` loop
RECURSIVE CheckStages(_)
CheckStages(commands) ==
    IF commands = <<>> THEN OkUnit
    ELSE LET cmd == Trim(Head(commands)) IN
         IF cmd = <<>> THEN CheckStages(Tail(commands))
         ELSE LET words == split_whitespace(cmd) IN
              IF words = <<>> THEN EmptyCommand
              ELSE IF ~IsAllowed(words[1]) THEN CommandNotAllowed(words[1])
              ELSE CheckStages(Tail(commands))

\* Faulty variant of validate_command: the stages are checked against the
\* allow-list before the command is scanned for forbidden patterns.
validate_command_allow_list_first(command) ==
    LET trimmed == Trim(command) IN
    IF trimmed = <<>> THEN EmptyCommand
    ELSE LET staged == CheckStages(split_respecting_quotes(trimmed, "|"))
             k == FirstForbidden(trimmed)
         IN IF staged # OkUnit THEN staged
            ELSE IF k # 0 THEN ForbiddenPattern(FORBIDDEN_PATTERNS[k])
            ELSE OkUnit

validate_command(command) ==
    LET trimmed == Trim(command) IN
    IF trimmed = <<>> THEN EmptyCommand
    ELSE LET k == FirstForbidden(trimmed) IN
         IF k # 0 THEN ForbiddenPattern(FORBIDDEN_PATTERNS[k])
         ELSE CheckStages(split_respecting_quotes(trimmed, "|"))

\* ------------------------------------------------------------ processes
\* The base directory every tool is constructed with (main.rs), as the
\* components of its canonical absolute path.
BASE_DIR == << <<"b","a","s","e">> >>

\* What a call hands to the operating system to execute
NoExec == [program |-> <<>>, argv |-> <<>>, cwd |-> <<>>]
Exec(program, argv) == [program |-> program, argv |-> argv, cwd |-> BASE_DIR]

\* ExitStatus: an exit code, or termination by a signal (code() = None)
Exited(c) == [kind |-> "code", n |-> c]
Signaled(sig) == [kind |-> "signal", n |-> sig]
Statuses == {Exited(0), Exited(1), Exited(2), Exited(127), Signaled(15)}

\* The data read from a pipe by the time it reaches end of file
Outputs == {<<>>, <<"o">>}
ErrOutputs == {<<>>, <<"e">>}

\* What a call observes of its process: std::io::Error kinds of a failed
\* spawn, or the Output / (status, stdout, stderr) of a completed process
IoErrorKinds == {"NotFound", "PermissionDenied"}
NoOutcome == [kind |-> "none"]
LaunchFailed(e) == [kind |-> "launch", error |-> e]
Completed(status, out, err) == [kind |-> "exit", status |-> status, out |-> out, err |-> err]

\* A spawned process with its two captured pipes
NoChild == [running |-> FALSE, out_open |-> FALSE, err_open |-> FALSE]
NewChild == [running |-> TRUE, out_open |-> TRUE, err_open |-> TRUE]

StderrSeparator ==
    <<"\n","-","-","-"," ","s","t","d","e","r","r"," ","-","-","-","\n">>

\* Faulty variant of ClassifyBash: a failure carries stdout when stdout is
\* non-empty, and stderr otherwise.
ClassifyBashPreferStdout(status, out, err) ==
    IF status = Exited(0)
    THEN OkOutput(IF err # <<>>
                  THEN (IF out # <<>> THEN out \o StderrSeparator ELSE out) \o err
                  ELSE out)
    ELSE CommandFailed(IF status.kind = "code" THEN status.n ELSE -1,
                       IF out = <<>> THEN err ELSE out)

\* the Ok(Ok((status, stdout, stderr))) arm of BashCommand::call
ClassifyBash(status, out, err) ==
    IF status = Exited(0)
    THEN OkOutput(IF err # <<>>
                  THEN (IF out # <<>> THEN out \o StderrSeparator ELSE out) \o err
                  ELSE out)
    ELSE CommandFailed(IF status.kind = "code" THEN status.n ELSE -1,
                       IF err = <<>> THEN out ELSE err)

\* ------------------------------------------------------ read_file.rs
MAX_BYTES == 50 * 1024
MAX_LINES == 1000

\* Variants of ReadFileError (Io is shared with the other tools)
PathTraversal(path) == [kind |-> "PathTraversal", path |-> path]
OutsideBaseDir == [kind |-> "OutsideBaseDir"]
OkPath(p) == [kind |-> "Ok", path |-> p]

\* Option<T>
NoneOpt == [some |-> FALSE, v |-> 0]
Some(x) == [some |-> TRUE, v |-> x]

\* The filesystem the tools run on. A canonical path is the sequence of its
\* component names below the root; /base is the base directory, /based a
\* sibling whose name extends it, /base/out a symlink that leaves the base.
BASE == <<"b","a","s","e">>
BASED == <<"b","a","s","e","d">>
ETC == <<"e","t","c">>
OUT == <<"o","u","t">>
Dirs == { <<>>, <<BASE>>, <<BASE, <<"d">> >>, <<ETC>>, <<BASED>> }
Files == { <<BASE, <<"f">> >>, <<BASE, <<"d">>, <<"f">> >>,
           <<ETC, <<"f">> >>, <<BASED, <<"f">> >> }
Symlinks == { <<BASE, OUT>> }
LinkTarget(p) == <<ETC>>

\* the pieces of s between occurrences of the character ch
RECURSIVE SplitOnLoop(_, _, _, _)
SplitOnLoop(s, ch, cur, acc) ==
    IF s = <<>> THEN Append(acc, cur)
    ELSE IF Head(s) = ch THEN SplitOnLoop(Tail(s), ch, <<>>, Append(acc, cur))
         ELSE SplitOnLoop(Tail(s), ch, Append(cur, Head(s)), acc)

SplitOn(s, ch) == SplitOnLoop(s, ch, <<>>, <<>>)

\* Path::display of a canonical path
RECURSIVE PathString(_)
PathString(comps) ==
    IF comps = <<>> THEN <<>> ELSE <<"/">> \o Head(comps) \o PathString(Tail(comps))

\* Path::join: an absolute argument replaces the base
PathJoin(base, path) ==
    IF path # <<>> /\ Head(path) = "/" THEN path
    ELSE PathString(base) \o <<"/">> \o path

\* fs::canonicalize (realpath) of an absolute path string: every component
\* must exist, a component can only be looked up in a directory, `.` and
\* empty components stay, `..` goes up, symlinks are followed.
CanonFail == [ok |-> FALSE, path |-> <<>>]
RECURSIVE CanonWalk(_, _)
CanonWalk(comps, cur) ==
    IF comps = <<>> THEN [ok |-> TRUE, path |-> cur]
    ELSE IF cur \notin Dirs THEN CanonFail
    ELSE LET c == Head(comps)
             next == Append(cur, c)
         IN IF c = <<>> \/ c = <<".">> THEN CanonWalk(Tail(comps), cur)
            ELSE IF c = <<".", ".">>
                 THEN CanonWalk(Tail(comps),
                                IF cur = <<>> THEN cur ELSE SubSeq(cur, 1, Len(cur) - 1))
            ELSE IF next \in Symlinks THEN CanonWalk(Tail(comps), LinkTarget(next))
            ELSE IF next \in Dirs \cup Files THEN CanonWalk(Tail(comps), next)
            ELSE CanonFail

canonicalize(path) == CanonWalk(SplitOn(path, "/"), <<>>)

\* Faulty variant of starts_with: the prefix is taken of the path strings.
StartsWithString(p, base) ==
    Len(PathString(base)) <= Len(PathString(p))
    /\ SubSeq(PathString(p), 1, Len(PathString(base))) = PathString(base)

\* Path::starts_with: base is a prefix of p, component by component
starts_with(p, base) ==
    Len(base) <= Len(p) /\ SubSeq(p, 1, Len(base)) = base

FsOp(op, path) == [op |-> op, path |-> path]

\* Faulty variant of resolve_path: only a `..` that is a whole component is refused.
ResolvePathByComponent(path) ==
    IF <<".", ".">> \in Range(SplitOn(path, "/"))
    THEN [res |-> PathTraversal(path), ops |-> <<>>]
    ELSE LET resolved == PathJoin(BASE_DIR, path)
             canonical == canonicalize(resolved)
             op1 == <<FsOp("join", resolved), FsOp("canonicalize", resolved)>>
             op2 == Append(op1, FsOp("canonicalize", PathString(BASE_DIR)))
         IN IF ~canonical.ok THEN [res |-> Io, ops |-> op1]
            ELSE IF starts_with(canonical.path, BASE_DIR)
                 THEN [res |-> OkPath(canonical.path), ops |-> op2]
                 ELSE [res |-> OutsideBaseDir, ops |-> op2]

\* ReadFile::resolve_path: the result and the filesystem operations it took
resolve_path(path) ==
    IF Contains(path, <<".", ".">>)
    THEN [res |-> PathTraversal(path), ops |-> <<>>]
    ELSE LET resolved == PathJoin(BASE_DIR, path)
             canonical == canonicalize(resolved)
             base_canonical == canonicalize(PathString(BASE_DIR))
             op1 == <<FsOp("join", resolved), FsOp("canonicalize", resolved)>>
             op2 == Append(op1, FsOp("canonicalize", PathString(BASE_DIR)))
         IN IF ~canonical.ok THEN [res |-> Io, ops |-> op1]
            ELSE IF ~base_canonical.ok THEN [res |-> Io, ops |-> op2]
            ELSE IF starts_with(canonical.path, base_canonical.path)
                 THEN [res |-> OkPath(canonical.path), ops |-> op2]
                 ELSE [res |-> OutsideBaseDir, ops |-> op2]

\* A text over the characters `a` and newline is modelled by the lengths of
\* its pieces between newlines: <<0>> is the empty text, <<2, 0, 1>> is
\* "aa\n\na". A line is modelled by its length.
EmptyString == <<0>>
is_empty(s) == s = <<0>>
push_char_newline(s) == Append(s, 0)
push_str(s, line) == [s EXCEPT ![Len(s)] = @ + line]

\* str::lines: the pieces between newlines; a final newline ends the last
\* line and starts no new one
lines(content) ==
    IF content[Len(content)] = 0 THEN SubSeq(content, 1, Len(content) - 1)
    ELSE content

saturating_sub(a, b) == IF a > b THEN a - b ELSE 0
Min(a, b) == IF a < b THEN a ELSE b

\* Iterator::skip and Iterator::take
skip(seq, n) == SubSeq(seq, n + 1, Len(seq))
take(seq, n) == SubSeq(seq, 1, Min(n, Len(seq)))

\* Faulty variant of selected_lines: start_line is used as the number of
\* lines to skip.
selected_lines_skip_start_line(content, start_line, end_line) ==
    LET all == lines(content)
        total_lines == Len(all)
        start == IF start_line.some THEN start_line.v ELSE 0
        end == Min(IF end_line.some THEN end_line.v ELSE total_lines, total_lines)
    IN take(skip(all, start), saturating_sub(end, start))

\* lines 105-113: the window [start_line, end_line]
selected_lines(content, start_line, end_line) ==
    LET all == lines(content)
        total_lines == Len(all)
        start == IF start_line.some THEN saturating_sub(start_line.v, 1) ELSE 0
        end == Min(IF end_line.some THEN end_line.v ELSE total_lines, total_lines)
    IN take(skip(all, start), saturating_sub(end, start))

\* The locals of the copy loop of lines 116-131; line_count is the 0-based
\* index of the next line of `selected`
NoCopy == [selected |-> <<>>, line_count |-> 0, result |-> EmptyString,
           byte_count |-> 0, truncated |-> FALSE]

\* ---------------------------------------------------- search_docs.rs
SEARCH_TIMEOUT_SECS == 30
MAX_COUNT == 100
CONTEXT_LINES == 2

\* Variants of SearchDocsError (Io and Timeout are shared)
RgaNotInstalled == [kind |-> "RgaNotInstalled"]
EmptyQuery == [kind |-> "EmptyQuery"]
SearchFailed(code, text) == [kind |-> "SearchFailed", code |-> code, text |-> text]

\* usize::to_string: the decimal digits
Digit(d) == <<"0","1","2","3","4","5","6","7","8","9">>[d + 1]
RECURSIVE to_string(_)
to_string(n) ==
    IF n < 10 THEN <<Digit(n)>> ELSE Append(to_string(n \div 10), Digit(n % 10))

\* lines 93-102: the argument vector of rga
SearchArgv(query, path) ==
    << <<"-","i">>,
       <<"-","-","m","a","x","-","c","o","u","n","t">>, to_string(MAX_COUNT),
       <<"-","-","c","o","n","t","e","x","t">>, to_string(CONTEXT_LINES),
       <<"-","-","c","o","l","o","r">>, <<"n","e","v","e","r">>,
       query, path >>

\* The bytes captured from a pipe of the search process; "xFF" is a byte
\* that is not valid UTF-8
OutputBytes == {<<>>, <<"o">>, <<"o", "xFF">>}

\* String::from_utf8_lossy: invalid bytes become U+FFFD
from_utf8_lossy(bytes) ==
    [i \in DOMAIN bytes |-> IF bytes[i] = "xFF" THEN "uFFFD" ELSE bytes[i]]

\* Faulty variant of ClassifySearch: exit code 1 is reported as a failure.
ClassifySearchNoMatchFails(status, out, err) ==
    IF status.kind = "code"
    THEN IF status.n = 0 THEN OkOutput(from_utf8_lossy(out))
         ELSE IF status.n = 127 THEN RgaNotInstalled
         ELSE SearchFailed(status.n, from_utf8_lossy(err))
    ELSE SearchFailed(-1, from_utf8_lossy(err))

\* lines 109-134: the Ok(Ok(output)) arm of SearchDocs::call
ClassifySearch(status, out, err) ==
    IF status.kind = "code"
    THEN IF status.n = 0 THEN OkOutput(from_utf8_lossy(out))
         ELSE IF status.n = 1
              THEN OkOutput(<<"N","o"," ","m","a","t","c","h","e","s"," ",
                              "f","o","u","n","d">>)
         ELSE IF status.n = 127 THEN RgaNotInstalled
         ELSE SearchFailed(status.n, from_utf8_lossy(err))
    ELSE SearchFailed(-1, from_utf8_lossy(err))

\* ------------------------------------------------------------ inputs
RECURSIVE Flatten(_)
Flatten(w) == IF w = <<>> THEN <<>> ELSE Head(w) \o Flatten(Tail(w))

CmdAtoms ==
    { <<"l","s">>, <<"r","m">>, <<" ">>, <<"|">>, <<"'">>, <<"\"">>,
      <<"\\">>, <<"&">>, <<"/">> }

\* the characters of the forbidden patterns, with a command name and quotes
PatternAtoms ==
    { <<"l","s">>, <<" ">>, <<";">>, <<"&">>, <<"|">>, <<Backtick>>, <<"$">>,
      <<"(">>, <<">">>, <<"<">>, <<"'">>, <<"\"">> }

PathAtoms ==
    { <<"/">>, <<".">>, <<"f">>, <<"d">>, OUT, ETC, BASE, BASED }

PathWords == UNION { [1..n -> PathAtoms] : n \in 0..MaxPathAtoms }

LineArgs ==
    {NoneOpt} \cup {Some(n) : n \in 0..MaxLineArg}
    \cup {Some(MAX_LINES), Some(MAX_LINES + 1)}

Windows == LineArgs \X LineArgs
LongWindows ==
    { <<NoneOpt, NoneOpt>>, <<Some(2), NoneOpt>>, <<NoneOpt, Some(MAX_LINES)>>,
      <<Some(2), Some(MAX_LINES + 1)>> }

\* file contents: short texts, texts with lines about as long as the byte
\* limit, and texts with about as many lines as the line limit
ShortContents == UNION { [1..n -> {0, 1, 2}] : n \in 1..MaxSegs }
WideContents ==
    UNION { [1..n -> {0, MAX_BYTES \div 2 - 1, MAX_BYTES \div 2, MAX_BYTES - 2,
                      MAX_BYTES - 1, MAX_BYTES, MAX_BYTES + 1}] : n \in 1..2 }
LongContents ==
    { [i \in 1..n |-> len] : n \in {MAX_LINES - 1, MAX_LINES, MAX_LINES + 1},
                             len \in {0, 1, 52} }

\* the contents and windows of the file reads
ReadInputs ==
    ((ShortContents \cup WideContents) \X Windows) \cup (LongContents \X LongWindows)

Queries == { <<>>, <<" ">>, <<"q">>, <<" ", "q", "\n">> }

SearchPaths ==
    { NoneOpt, Some(<<".">>), Some(<<"d">>), Some(<<"/">> \o ETC),
      Some(<<".", ".", "/">> \o ETC), Some(OUT) }

\* ------------------------------------------------------------ state
VARIABLES
    pc,         \* position of the call in progress, "idle" between calls
    tool,       \* the tool being called
    args,       \* the arguments of the call
    ret,        \* the value returned to the caller
    exec,       \* what the call handed to the OS to execute
    child,      \* the spawned process
    signalled,  \* whether the call has sent the process a kill signal
    stdout,     \* the async block's local `stdout`
    stderr,     \* the async block's local `stderr`
    fsOps,      \* the filesystem operations the call has performed, in order
    copy,       \* the locals of the file read's copy loop
    outcome     \* what the call observed of its process: a launch failure,
                \* or the exit status and the bytes of the two pipes

vars == <<pc, tool, args, ret, exec, child, signalled, stdout, stderr, fsOps, copy,
          outcome>>

NoRet == [kind |-> "none"]
NoArgs == [none |-> TRUE]

Init ==
    /\ pc = "idle"
    /\ tool = "none"
    /\ args = NoArgs
    /\ ret = NoRet
    /\ exec = NoExec
    /\ child = NoChild
    /\ signalled = FALSE
    /\ stdout = <<>>
    /\ stderr = <<>>
    /\ fsOps = <<>>
    /\ copy = NoCopy
    /\ outcome = NoOutcome

\* ------------------------------------------- the functions on their own
\* The stages of the result of split_respecting_quotes
Stages(st) == [kind |-> "stages", stages |-> st]

\* A call of split_respecting_quotes, as the unit tests make it
SplitCall(atoms, max) ==
    /\ pc = "idle"
    /\ \E n \in 0..max : \E w \in [1..n -> atoms] :
       \E s \in {Flatten(w)} :
         /\ tool' = "split_respecting_quotes"
         /\ args' = [s |-> s, delimiter |-> "|"]
         /\ ret' = Stages(split_respecting_quotes(s, "|"))
    /\ pc' = "done"
    /\ UNCHANGED <<exec, child, signalled, stdout, stderr, fsOps, copy, outcome>>

\* A call of validate_command, as the unit tests make it
ValidateCall(atoms, max) ==
    /\ pc = "idle"
    /\ \E n \in 0..max : \E w \in [1..n -> atoms] :
       \E command \in {Flatten(w)} :
         /\ tool' = "validate_command"
         /\ args' = [command |-> command]
         /\ ret' = validate_command(command)
    /\ pc' = "done"
    /\ UNCHANGED <<exec, child, signalled, stdout, stderr, fsOps, copy, outcome>>

\* A call of resolve_path
ResolveCall(words) ==
    /\ pc = "idle"
    /\ \E w \in words :
       \E path \in {Flatten(w)} :
       \E r \in {resolve_path(path)} :
         /\ tool' = "resolve_path"
         /\ args' = [path |-> path]
         /\ ret' = r.res
         /\ fsOps' = r.ops
    /\ pc' = "done"
    /\ UNCHANGED <<exec, child, signalled, stdout, stderr, copy, outcome>>

\* --------------------------------------------------- BashCommand::call
\* Faulty variant of BashCall: the process is spawned before the command is
\* validated, and the validation error returned afterwards.
BashCallSpawnsFirst(atoms, max) ==
    /\ pc = "idle"
    /\ \E n \in 0..max : \E w \in [1..n -> atoms] :
       \E command \in {Flatten(w)} :
       \E v \in {validate_command(command)} :
         /\ tool' = "bash"
         /\ args' = [command |-> command]
         /\ UNCHANGED <<signalled, stdout, stderr, fsOps, copy>>
         /\ exec' = Exec(<<"s","h">>, << <<"-","c">>, command >>)
         /\ child' = NewChild
         /\ outcome' = NoOutcome
         /\ IF v # OkUnit
            THEN ret' = v /\ pc' = "done"
            ELSE ret' = NoRet /\ pc' = "read_stdout"

\* Lines 160-183: validation, then the spawn, up to the first await.
BashCall(atoms, max) ==
    /\ pc = "idle"
    /\ \E n \in 0..max : \E w \in [1..n -> atoms] :
       \E command \in {Flatten(w)} :
       \E v \in {validate_command(command)} :
         /\ tool' = "bash"
         /\ args' = [command |-> command]
         /\ UNCHANGED <<signalled, stdout, stderr, fsOps, copy>>
         /\ IF v # OkUnit
            THEN /\ ret' = v /\ pc' = "done"
                 /\ exec' = NoExec /\ child' = NoChild
                 /\ outcome' = NoOutcome
            ELSE \E parts \in {split_whitespace(command)} :
                 IF ~Contains(command, <<"|">>) /\ parts = <<>>
                 THEN /\ ret' = EmptyCommand /\ pc' = "done"
                      /\ exec' = NoExec /\ child' = NoChild
                      /\ outcome' = NoOutcome
                 ELSE /\ exec' = IF Contains(command, <<"|">>)
                                 THEN Exec(<<"s","h">>, << <<"-","c">>, command >>)
                                 ELSE Exec(Head(parts), Tail(parts))
                      /\ \/ /\ ret' = NoRet /\ pc' = "read_stdout"
                            /\ child' = NewChild /\ outcome' = NoOutcome
                         \* the `?` of spawn()
                         \/ \E e \in IoErrorKinds :
                              /\ ret' = Io /\ pc' = "done"
                              /\ child' = NoChild /\ outcome' = LaunchFailed(e)

\* Line 190: read_to_string on the stdout pipe returns at end of file
ReadStdout ==
    /\ pc = "read_stdout"
    /\ ~child.out_open
    /\ stdout' \in Outputs
    /\ pc' = "read_stderr"
    /\ UNCHANGED <<tool, args, ret, exec, child, signalled, stderr, fsOps, copy, outcome>>

\* Line 193: read_to_string on the stderr pipe returns at end of file
ReadStderr ==
    /\ pc = "read_stderr"
    /\ ~child.err_open
    /\ stderr' \in ErrOutputs
    /\ pc' = "wait"
    /\ UNCHANGED <<tool, args, ret, exec, child, signalled, stdout, fsOps, copy, outcome>>

\* Lines 196-218: wait() returns the status and the result is classified
WaitDone ==
    /\ pc = "wait"
    /\ ~child.running
    /\ \E status \in Statuses :
         /\ ret' = ClassifyBash(status, stdout, stderr)
         /\ outcome' = Completed(status, stdout, stderr)
    /\ pc' = "done"
    /\ stdout' = <<>>
    /\ stderr' = <<>>
    /\ UNCHANGED <<tool, args, exec, child, signalled, fsOps, copy>>

\* Line 219: one of the `?` inside the async block fails
BashIoError ==
    /\ pc \in {"read_stdout", "read_stderr", "wait"}
    /\ ret' = Io
    /\ pc' = "done"
    /\ stdout' = <<>>
    /\ stderr' = <<>>
    /\ UNCHANGED <<tool, args, exec, child, signalled, fsOps, copy, outcome>>

\* Faulty variant of BashDeadline: the read of stdout is outside the timeout,
\* so the deadline can expire only once stdout has been read.
BashDeadlineAfterRead ==
    /\ pc \in {"read_stderr", "wait"}
    /\ pc' = "kill"
    /\ stdout' = <<>>
    /\ stderr' = <<>>
    /\ UNCHANGED <<tool, args, ret, exec, child, signalled, fsOps, copy, outcome>>

\* Line 220: the 30 s deadline expires while the async block is pending;
\* the block and its locals are dropped
BashDeadline ==
    /\ pc \in {"read_stdout", "read_stderr", "wait"}
    /\ pc' = "kill"
    /\ stdout' = <<>>
    /\ stderr' = <<>>
    /\ UNCHANGED <<tool, args, ret, exec, child, signalled, fsOps, copy, outcome>>

\* Line 222: child.kill().await sends SIGKILL and reaps the process
BashKill ==
    /\ pc = "kill"
    /\ signalled' = TRUE
    /\ child' = [child EXCEPT !.running = FALSE]
    /\ pc' = "timed_out"
    /\ UNCHANGED <<tool, args, ret, exec, stdout, stderr, fsOps, copy, outcome>>

\* Line 223
BashTimeout ==
    /\ pc = "timed_out"
    /\ ret' = Timeout(TIMEOUT_SECS)
    /\ pc' = "done"
    /\ UNCHANGED <<tool, args, exec, child, signalled, stdout, stderr, fsOps, copy, outcome>>

\* ------------------------------------------------------ ReadFile::call
\* Lines 98-118: the path is resolved, the file read and the window
\* selected. The content read from the file is logged with the read.
ReadFileCall(words, inputs) ==
    /\ pc = "idle"
    /\ \E w \in words, in \in inputs :
       \E path \in {Flatten(w)} :
       \E r \in {resolve_path(path)} :
         /\ tool' = "read_file"
         /\ args' = [path |-> path, start_line |-> in[2][1], end_line |-> in[2][2]]
         /\ UNCHANGED <<exec, child, signalled, stdout, stderr, outcome>>
         /\ IF r.res.kind # "Ok"
            THEN /\ ret' = r.res /\ fsOps' = r.ops
                 /\ pc' = "done" /\ copy' = NoCopy
            ELSE IF r.res.path \notin Files
            THEN /\ ret' = Io /\ pc' = "done" /\ copy' = NoCopy
                 /\ fsOps' = Append(r.ops, [op |-> "read", path |-> r.res.path,
                                            content |-> EmptyString])
            ELSE \/ /\ ret' = Io /\ pc' = "done" /\ copy' = NoCopy
                    /\ fsOps' = Append(r.ops, [op |-> "read", path |-> r.res.path,
                                               content |-> EmptyString])
                 \/ /\ ret' = NoRet /\ pc' = "copy"
                    /\ fsOps' = Append(r.ops, [op |-> "read", path |-> r.res.path,
                                               content |-> in[1]])
                    /\ copy' = [NoCopy EXCEPT
                                  !.selected = selected_lines(in[1], in[2][1], in[2][2])]

\* Lines 120-131: one iteration of the copy loop
CopyLine ==
    /\ pc = "copy"
    /\ ~copy.truncated
    /\ copy.line_count < Len(copy.selected)
    /\ LET line == copy.selected[copy.line_count + 1] IN
       copy' =
         IF copy.line_count >= MAX_LINES \/ copy.byte_count + line + 1 > MAX_BYTES
         THEN [copy EXCEPT !.truncated = TRUE]
         ELSE IF ~is_empty(copy.result)
              THEN [copy EXCEPT !.line_count = @ + 1,
                                !.result = push_str(push_char_newline(@), line),
                                !.byte_count = @ + 1 + line]
              ELSE [copy EXCEPT !.line_count = @ + 1,
                                !.result = push_str(@, line),
                                !.byte_count = @ + line]
    /\ UNCHANGED <<pc, tool, args, ret, exec, child, signalled, stdout, stderr, fsOps, outcome>>

\* Lines 133-137: the loop is over; marker says that the truncation notice
\* was appended to the text
CopyDone ==
    /\ pc = "copy"
    /\ copy.truncated \/ copy.line_count >= Len(copy.selected)
    /\ ret' = OkOutput([text |-> copy.result, marker |-> copy.truncated])
    /\ pc' = "done"
    /\ copy' = NoCopy
    /\ UNCHANGED <<tool, args, exec, child, signalled, stdout, stderr, fsOps, outcome>>

\* ----------------------------------------------------- SearchDocs::call
\* Lines 84-106: the query check, then Command::output spawns rga
SearchCall(queries, paths) ==
    /\ pc = "idle"
    /\ \E query \in queries, path \in paths :
         /\ tool' = "search_docs"
         /\ args' = [query |-> query, path |-> path]
         /\ UNCHANGED <<signalled, stdout, stderr, fsOps, copy>>
         /\ IF Trim(query) = <<>>
            THEN /\ ret' = EmptyQuery /\ pc' = "done"
                 /\ exec' = NoExec /\ child' = NoChild
                 /\ outcome' = NoOutcome
            ELSE /\ exec' = Exec(<<"r","g","a">>,
                                 SearchArgv(query, IF path.some THEN path.v ELSE <<".">>))
                 /\ \/ /\ ret' = NoRet /\ pc' = "output"
                       /\ child' = NewChild /\ outcome' = NoOutcome
                    \* lines 135-142: the launch fails
                    \/ \E e \in IoErrorKinds :
                         /\ ret' = IF e = "NotFound" THEN RgaNotInstalled ELSE Io
                         /\ pc' = "done" /\ child' = NoChild
                         /\ outcome' = LaunchFailed(e)

\* Lines 109-134: output() resolves once the process has exited and both
\* pipes have reached end of file
SearchOutput ==
    /\ pc = "output"
    /\ ~child.running /\ ~child.out_open /\ ~child.err_open
    /\ \E status \in Statuses, out \in OutputBytes, err \in OutputBytes :
         /\ ret' = ClassifySearch(status, out, err)
         /\ outcome' = Completed(status, out, err)
    /\ pc' = "done"
    /\ UNCHANGED <<tool, args, exec, child, signalled, stdout, stderr, fsOps, copy>>

\* Line 140: output() fails while reading the pipes or waiting
SearchIoError ==
    /\ pc = "output"
    /\ ret' = Io
    /\ pc' = "done"
    /\ UNCHANGED <<tool, args, exec, child, signalled, stdout, stderr, fsOps, copy, outcome>>

\* Lines 143-146: the deadline expires; the output() future is dropped, and
\* the command was not built with kill_on_drop
SearchDeadline ==
    /\ pc = "output"
    /\ ret' = Timeout(SEARCH_TIMEOUT_SECS)
    /\ pc' = "done"
    /\ UNCHANGED <<tool, args, exec, child, signalled, stdout, stderr, fsOps, copy, outcome>>

\* ------------------------------------------------ the spawned process
\* The process, and whoever inherited its pipes, while the call is pending
ChildCloseStdout ==
    /\ pc \notin {"idle", "done"}
    /\ child.out_open
    /\ child' = [child EXCEPT !.out_open = FALSE]
    /\ UNCHANGED <<pc, tool, args, ret, exec, signalled, stdout, stderr, fsOps, copy, outcome>>

ChildCloseStderr ==
    /\ pc \notin {"idle", "done"}
    /\ child.err_open
    /\ child' = [child EXCEPT !.err_open = FALSE]
    /\ UNCHANGED <<pc, tool, args, ret, exec, signalled, stdout, stderr, fsOps, copy, outcome>>

ChildExit ==
    /\ pc \notin {"idle", "done"}
    /\ child.running
    /\ child' = [child EXCEPT !.running = FALSE]
    /\ UNCHANGED <<pc, tool, args, ret, exec, signalled, stdout, stderr, fsOps, copy, outcome>>

\* The call has returned; the caller may issue the next one.
Return ==
    /\ pc = "done"
    /\ pc' = "idle"
    /\ tool' = "none"
    /\ args' = NoArgs
    /\ ret' = NoRet
    /\ exec' = NoExec
    /\ child' = NoChild
    /\ signalled' = FALSE
    /\ fsOps' = <<>>
    /\ outcome' = NoOutcome
    /\ UNCHANGED <<stdout, stderr, copy>>

BashRun ==
    \/ ReadStdout \/ ReadStderr \/ WaitDone \/ BashIoError
    \/ BashDeadline \/ BashKill \/ BashTimeout

ChildStep == ChildCloseStdout \/ ChildCloseStderr \/ ChildExit

\* The validator on commands of the quoting characters and on commands of
\* the forbidden characters
NextValidate ==
    \/ ValidateCall(CmdAtoms, MaxAtoms)
    \/ ValidateCall(PatternAtoms, MaxPatAtoms)
    \/ Return

SpecValidate == Init /\ [][NextValidate]_vars

\* The validator on commands of the forbidden characters alone
NextPatterns == ValidateCall(PatternAtoms, MaxPatAtoms) \/ Return

SpecPatterns == Init /\ [][NextPatterns]_vars

NextSplit == SplitCall(CmdAtoms, MaxAtoms) \/ Return

SpecSplit == Init /\ [][NextSplit]_vars

NextBash == BashCall(CmdAtoms, MaxAtoms) \/ BashRun \/ ChildStep \/ Return

SpecBash == Init /\ [][NextBash]_vars

\* File reads with every path, of one file content
NextPath ==
    \/ ResolveCall(PathWords)
    \/ ReadFileCall(PathWords, {<< <<1, 0, 2>>, <<NoneOpt, NoneOpt>> >>})
    \/ CopyLine \/ CopyDone \/ Return

SpecPath == Init /\ [][NextPath]_vars

\* File reads of one path, with every content and window
NextRead ==
    \/ ReadFileCall({<< <<"f">> >>}, ReadInputs)
    \/ CopyLine \/ CopyDone \/ Return

SpecRead == Init /\ [][NextRead]_vars

SearchRun == SearchOutput \/ SearchIoError \/ SearchDeadline

NextSearch == SearchCall(Queries, SearchPaths) \/ SearchRun \/ ChildStep \/ Return

SpecSearch == Init /\ [][NextSearch]_vars

\* The three tools together
Next ==
    \/ BashCall(CmdAtoms, MaxAtoms) \/ BashCall(PatternAtoms, MaxPatAtoms)
    \/ BashRun
    \/ ReadFileCall(PathWords, {<< <<1, 0, 2>>, <<NoneOpt, NoneOpt>> >>})
    \/ ReadFileCall({<< <<"f">> >>}, ReadInputs)
    \/ CopyLine \/ CopyDone
    \/ SearchCall(Queries, SearchPaths) \/ SearchRun
    \/ ChildStep \/ Return

Spec == Init /\ [][Next]_vars

\* Shell executions and searches under the scheduling the runtime gives: the
\* timer of `timeout` fires once the deadline has passed, and the steps of
\* the call that follow it (kill, return) are taken. Nothing is assumed of
\* the spawned process.
NextLive ==
    \/ BashCall(CmdAtoms, MaxLiveAtoms) \/ BashRun
    \/ SearchCall(Queries, SearchPaths) \/ SearchRun
    \/ ChildStep \/ Return

SpecLive ==
    /\ Init /\ [][NextLive]_vars
    /\ WF_vars(BashDeadline) /\ WF_vars(BashKill) /\ WF_vars(BashTimeout)
    /\ WF_vars(SearchDeadline)
\* ================================================================ claims
\* The forbidden patterns and the allow-list, as the specification lists them
ForbiddenSet ==
    { <<";">>, <<"&","&">>, <<"|","|">>, <<Backtick>>, <<"$","(">>,
      <<">">>, <<"<">>, <<">",">">>, <<"<","<">> }

AllowSet ==
    { <<"g","r","e","p">>, <<"f","i","n","d">>, <<"c","a","t">>,
      <<"h","e","a","d">>, <<"t","a","i","l">>, <<"l","s">>,
      <<"t","r","e","e">>, <<"w","c">>, <<"f","i","l","e">>, <<"r","g">> }

\* p occurs in s at position i
OccursAt(s, p, i) ==
    i + Len(p) - 1 <= Len(s) /\ \A j \in 1..Len(p) : s[i + j - 1] = p[j]

ContainsForbidden(s) ==
    \E i \in 1..Len(s) : \E p \in ForbiddenSet : s[i] = p[1] /\ OccursAt(s, p, i)

Blank(s) == \A i \in 1..Len(s) : s[i] \in {" ", "\n"}

\* the first whitespace-delimited token of a text that is not blank
FirstToken(s) ==
    LET a == CHOOSE i \in 1..Len(s) :
                 s[i] \notin {" ", "\n"} /\ \A k \in 1..(i - 1) : s[k] \in {" ", "\n"}
        b == CHOOSE j \in a..Len(s) :
                 /\ \A k \in a..j : s[k] \notin {" ", "\n"}
                 /\ j = Len(s) \/ s[j + 1] \in {" ", "\n"}
    IN SubSeq(s, a, b)

ValidateReturned == pc = "done" /\ tool = "validate_command"

\* C1. Every command that contains one of the forbidden patterns
\* (; && || ` $( > < >> <<), at any position and inside or outside quotes,
\* is rejected by validate_command with ForbiddenPattern; none is accepted.
C1_ForbiddenRejected ==
    (ValidateReturned /\ ContainsForbidden(args.command))
        => ret.kind = "ForbiddenPattern"

\* C1 witness: a command substitution inside double quotes is rejected.
C1_Witness ==
    /\ ValidateReturned
    /\ args.command = <<"\"", "$", "(", "\"">>
    /\ ret = ForbiddenPattern(<<"$", "(">>)

C2_WitnessAccepted ==
    /\ ValidateReturned
    /\ args.command = <<"l","s","|"," ","|","l","s">>
    /\ ret = OkUnit

\* The quoting of the POSIX shell: for every character of s, whether it is
\* "plain" (unquoted), a "quote" that opens or closes a quoted span, a
\* "backslash" that escapes the next character, "escaped" by a backslash,
\* or inside a "single" or "double" quoted span. Inside single quotes a
\* backslash is literal; inside double quotes it keeps the next character
\* from closing the span.
RECURSIVE ShellClassesLoop(_, _, _, _)
ShellClassesLoop(s, i, mode, acc) ==
    IF i > Len(s) THEN acc
    ELSE LET c == s[i] IN
         IF mode = "esc" THEN ShellClassesLoop(s, i + 1, "none", Append(acc, "escaped"))
         ELSE IF mode = "dqesc" THEN ShellClassesLoop(s, i + 1, "double", Append(acc, "double"))
         ELSE IF mode = "single"
              THEN IF c = "'" THEN ShellClassesLoop(s, i + 1, "none", Append(acc, "quote"))
                   ELSE ShellClassesLoop(s, i + 1, "single", Append(acc, "single"))
         ELSE IF mode = "double"
              THEN IF c = "\"" THEN ShellClassesLoop(s, i + 1, "none", Append(acc, "quote"))
                   ELSE IF c = "\\" THEN ShellClassesLoop(s, i + 1, "dqesc", Append(acc, "double"))
                   ELSE ShellClassesLoop(s, i + 1, "double", Append(acc, "double"))
         ELSE IF c = "\\" THEN ShellClassesLoop(s, i + 1, "esc", Append(acc, "backslash"))
         ELSE IF c = "'" THEN ShellClassesLoop(s, i + 1, "single", Append(acc, "quote"))
         ELSE IF c = "\"" THEN ShellClassesLoop(s, i + 1, "double", Append(acc, "quote"))
         ELSE ShellClassesLoop(s, i + 1, "none", Append(acc, "plain"))

ShellClasses(s) == ShellClassesLoop(s, 1, "none", <<>>)

\* the positions of s at which a list of stages cuts it
RECURSIVE SplitPoints(_, _)
SplitPoints(stages, offset) ==
    IF Len(stages) <= 1 THEN {}
    ELSE {offset + Len(Head(stages)) + 1}
         \cup SplitPoints(Tail(stages), offset + Len(Head(stages)) + 1)

SplitReturned == pc = "done" /\ tool = "split_respecting_quotes"

\* C3. split_respecting_quotes never splits at a pipe inside a matched pair
\* of single or double quotes, and every pipe outside any quoted span is a
\* split point.
C3_QuoteAwareSplit ==
    SplitReturned =>
        LET s == args.s
            class == ShellClasses(s)
            cuts == SplitPoints(ret.stages, 0)
        IN \A i \in 1..Len(s) :
              s[i] = "|" =>
                /\ (class[i] \in {"single", "double"}
                    /\ \E j \in (i + 1)..Len(s) : class[j] = "quote") => i \notin cuts
                /\ class[i] = "plain" => i \in cuts
\* The commands a POSIX shell runs for a script, by its own quoting and
\* separator rules: unquoted `|`, `&`, `;` and newlines end a command,
\* unquoted blanks end a word, quotes and escaping backslashes are removed,
\* and the name of a command is its first word. ok is FALSE when the shell
\* reports a syntax error (an unterminated quote, a pipe without a command
\* on one of its sides) and runs nothing of the line.
\* st: the quoting mode, the word and whether one is open, the name of the
\* command so far, whether a pipe awaits its right-hand command.
RECURSIVE ShellParseLoop(_, _, _)
ShellParseLoop(s, i, st) ==
    LET endWord == IF st.inWord /\ ~st.hasName
                   THEN [st EXCEPT !.inWord = FALSE, !.word = <<>>,
                                   !.hasName = TRUE, !.name = st.word]
                   ELSE [st EXCEPT !.inWord = FALSE, !.word = <<>>]
        endCmd(pipe) ==
            IF ~endWord.hasName /\ (pipe \/ endWord.afterPipe) THEN [endWord EXCEPT !.ok = FALSE]
            ELSE [endWord EXCEPT !.hasName = FALSE, !.name = <<>>, !.afterPipe = pipe,
                                 !.names = IF endWord.hasName
                                           THEN Append(endWord.names, endWord.name)
                                           ELSE endWord.names]
        lit(c, mode) == [st EXCEPT !.inWord = TRUE, !.word = Append(st.word, c), !.mode = mode]
    IN
    IF i > Len(s)
    THEN IF st.mode # "none" THEN [st EXCEPT !.ok = FALSE]
         ELSE IF ~endWord.hasName /\ endWord.afterPipe THEN [st EXCEPT !.ok = FALSE]
         ELSE endCmd(FALSE)
    ELSE LET c == s[i] IN
         IF st.mode = "esc" THEN ShellParseLoop(s, i + 1, lit(c, "none"))
         ELSE IF st.mode = "dqesc"
              THEN ShellParseLoop(s, i + 1,
                      IF c \in {"\"", "\\"} THEN lit(c, "double")
                      ELSE [st EXCEPT !.word = st.word \o <<"\\", c>>, !.mode = "double"])
         ELSE IF st.mode = "single"
              THEN IF c = "'" THEN ShellParseLoop(s, i + 1, [st EXCEPT !.mode = "none"])
                   ELSE ShellParseLoop(s, i + 1, lit(c, "single"))
         ELSE IF st.mode = "double"
              THEN IF c = "\"" THEN ShellParseLoop(s, i + 1, [st EXCEPT !.mode = "none"])
                   ELSE IF c = "\\" THEN ShellParseLoop(s, i + 1, [st EXCEPT !.mode = "dqesc"])
                   ELSE ShellParseLoop(s, i + 1, lit(c, "double"))
         ELSE IF c = "\\" THEN ShellParseLoop(s, i + 1, [st EXCEPT !.inWord = TRUE, !.mode = "esc"])
         ELSE IF c = "'" THEN ShellParseLoop(s, i + 1, [st EXCEPT !.inWord = TRUE, !.mode = "single"])
         ELSE IF c = "\"" THEN ShellParseLoop(s, i + 1, [st EXCEPT !.inWord = TRUE, !.mode = "double"])
         ELSE IF c = " " THEN ShellParseLoop(s, i + 1, endWord)
         ELSE IF c = "|"
              THEN IF ~endCmd(TRUE).ok THEN endCmd(TRUE)
                   ELSE ShellParseLoop(s, i + 1, endCmd(TRUE))
         ELSE IF c \in {"&", ";", "\n"}
              THEN IF ~endCmd(FALSE).ok THEN endCmd(FALSE)
                   ELSE ShellParseLoop(s, i + 1, endCmd(FALSE))
         ELSE ShellParseLoop(s, i + 1, lit(c, "none"))

ShellParse(s) ==
    ShellParseLoop(s, 1, [mode |-> "none", inWord |-> FALSE, word |-> <<>>,
                          hasName |-> FALSE, name |-> <<>>, afterPipe |-> FALSE,
                          names |-> <<>>, ok |-> TRUE])

HandedToShell == tool = "bash" /\ exec.program = <<"s","h">> /\ child # NoChild

\* C4. Every command the shell runs for a string that validate_command
\* accepted and call handed to `sh -c` is on the allow-list, the string being
\* split into commands by the shell's own quoting and separator rules.
C4_ShellRunsOnlyApproved ==
    HandedToShell =>
        LET p == ShellParse(exec.argv[2])
        IN p.ok => \A k \in DOMAIN p.names : p.names[k] \in AllowSet
\* A path argument is absolute, or its canonical form lies outside the base
\* directory
IsAbsolute(path) == path # <<>> /\ path[1] = "/"

UnderBase(p) ==
    Len(p) >= Len(BASE_DIR) /\ \A k \in 1..Len(BASE_DIR) : p[k] = BASE_DIR[k]

CanonicalOf(path) == canonicalize(PathJoin(BASE_DIR, path))

Escapes(path) ==
    IsAbsolute(path) \/ (CanonicalOf(path).ok /\ ~UnderBase(CanonicalOf(path).path))

ReadsFile == \E k \in DOMAIN fsOps : fsOps[k].op = "read"

\* C5. In none of the three tools does a call whose arguments name an
\* absolute path, or a path that escapes the base directory, get to spawn a
\* process or to read a file.
C5_NoPathOutsideBase ==
    /\ tool = "bash" =>
          \A word \in Range(split_whitespace(args.command)) :
              Escapes(word) => exec = NoExec
    /\ (tool = "search_docs" /\ args.path.some /\ Escapes(args.path.v))
          => exec = NoExec
    /\ (tool = "read_file" /\ Escapes(args.path)) => ~ReadsFile
ResolveReturned == pc = "done" /\ tool = "resolve_path"

HasDotDot(path) ==
    \E i \in 1..(Len(path) - 1) : path[i] = "." /\ path[i + 1] = "."

CanonicalOutside(path) ==
    CanonicalOf(path).ok /\ ~UnderBase(CanonicalOf(path).path)

\* Ok(p) is returned only for the canonical form p of the joined path, and
\* only under the canonical base
OkOnlyUnderBase ==
    (ResolveReturned /\ ret.kind = "Ok")
        => /\ CanonicalOf(args.path).ok
           /\ ret.path = CanonicalOf(args.path).path
           /\ UnderBase(ret.path)

\* the file read reads no path but the one resolve_path returned
ReadsOnlyResolved ==
    tool = "read_file" =>
        \A k \in DOMAIN fsOps :
            fsOps[k].op = "read" => resolve_path(args.path).res = OkPath(fsOps[k].path)

\* the input is absolute, or names the symlink
AbsoluteOrThroughSymlink(path) ==
    IsAbsolute(path) \/ OUT \in Range(SplitOn(path, "/"))

\* C6, as claimed. resolve_path returns Ok(p) only for the canonical form p
\* of the joined path, under the canonical base; every input whose
\* canonical form lies outside the base, through a symlink or because the
\* input is absolute, is rejected with OutsideBaseDir; the file read reads
\* only a path that resolve_path returned.
C6_Original ==
    /\ OkOnlyUnderBase
    /\ (ResolveReturned /\ AbsoluteOrThroughSymlink(args.path)
           /\ CanonicalOutside(args.path)) => ret = OutsideBaseDir
    /\ ReadsOnlyResolved

\* C6, amended. As claimed, but an input whose canonical form lies outside
\* the base is rejected with PathTraversal when it contains `..`, and with
\* OutsideBaseDir otherwise.
C6_ConfinedResolve ==
    /\ OkOnlyUnderBase
    /\ (ResolveReturned /\ CanonicalOutside(args.path))
          => ret = IF HasDotDot(args.path) THEN PathTraversal(args.path)
                   ELSE OutsideBaseDir
    /\ ReadsOnlyResolved

\* C6 witness: a path through the symlink that leaves the base is rejected.
C6_Witness ==
    /\ ResolveReturned
    /\ args.path = OUT \o <<"/", "f">>
    /\ CanonicalOf(args.path).path = <<ETC, <<"f">> >>
    /\ ret = OutsideBaseDir

\* C7. A path that contains `..` at any position is rejected with
\* PathTraversal carrying the path, before any filesystem operation.
C7_TraversalRejectedFirst ==
    (tool \in {"resolve_path", "read_file"} /\ HasDotDot(args.path))
        => /\ pc = "done"
           /\ ret = PathTraversal(args.path)
           /\ fsOps = <<>>

\* C7 witness: a file name that merely contains `..` is rejected by the file
\* read without a filesystem operation.
C7_Witness ==
    /\ tool = "read_file" /\ pc = "done"
    /\ args.path = <<"f", ".", ".", "f">>
    /\ ret = PathTraversal(args.path)
    /\ fsOps = <<>>
\* ---- file read
ReadReturned == pc = "done" /\ tool = "read_file" /\ ret.kind = "Ok"

\* the content the call read from the file
ContentRead == fsOps[Len(fsOps)].content

\* the lines of a file: the pieces between newlines, a final newline ending
\* the last line
FileLines(content) ==
    IF content[Len(content)] = 0 THEN SubSeq(content, 1, Len(content) - 1)
    ELSE content

\* the lines numbered start_line..end_line, 1-indexed and inclusive, with
\* start_line 0 or omitted as 1 and end_line omitted or past the end as the
\* last line
Window(content, start_line, end_line) ==
    LET all == FileLines(content)
        lo == IF start_line.some /\ start_line.v >= 1 THEN start_line.v ELSE 1
        hi == IF end_line.some /\ end_line.v <= Len(all) THEN end_line.v ELSE Len(all)
    IN IF lo > hi THEN <<>> ELSE SubSeq(all, lo, hi)

WindowRead == Window(ContentRead, args.start_line, args.end_line)

\* lines joined by single newlines, as a text
JoinLines(ls) == IF ls = <<>> THEN <<0>> ELSE ls

RECURSIVE SumRange(_, _, _)
SumRange(ls, lo, hi) ==
    IF lo > hi THEN 0
    ELSE IF lo = hi THEN ls[lo]
    ELSE SumRange(ls, lo, (lo + hi) \div 2) + SumRange(ls, (lo + hi) \div 2 + 1, hi)

\* the number of bytes of lines joined by single newlines
JoinedBytes(ls) == IF ls = <<>> THEN 0 ELSE SumRange(ls, 1, Len(ls)) + Len(ls) - 1

\* C8. For every file content and every window within the size limits, the
\* file read returns exactly the lines start_line..end_line, verbatim and
\* joined by single newlines.
C8_ExactWindow ==
    (ReadReturned /\ Len(WindowRead) <= 1000 /\ JoinedBytes(WindowRead) <= 51200)
        => ret.output = [text |-> JoinLines(WindowRead), marker |-> FALSE]

\* C9. When the selected lines are more than 1000 or take more than 51200
\* bytes, the result ends with the truncation marker; the text before the
\* marker is a prefix of whole selected lines of at most 1000 lines and
\* 51200 bytes; a result without the marker is the whole selection.
C9_TruncationMarked ==
    ReadReturned =>
        /\ (Len(WindowRead) > 1000 \/ JoinedBytes(WindowRead) > 51200)
              => ret.output.marker
        /\ ret.output.marker =>
              \E k \in 0..Len(WindowRead) :
                  /\ ret.output.text = JoinLines(SubSeq(WindowRead, 1, k))
                  /\ k <= 1000
                  /\ JoinedBytes(SubSeq(WindowRead, 1, k)) <= 51200
        /\ ~ret.output.marker => ret.output.text = JoinLines(WindowRead)

\* C10. In the shell execution and in the document search, a call that
\* returns Timeout has sent its process a kill signal before.
C10_KilledBeforeTimeout ==
    (pc = "done" /\ ret.kind = "Timeout") => signalled
\* ---- termination
CallPending == pc \notin {"idle", "done"}

\* C11. Every shell-execution and document-search call that is pending
\* eventually returns to its caller, whatever the spawned process does.
C11_CallReturns == CallPending ~> (pc = "done")

\* a shell execution has returned although the process never closed its pipes
C11_Witness ==
    /\ pc = "done" /\ tool = "bash" /\ ret.kind = "Timeout"
    /\ child.out_open /\ child.err_open
\* ---- document search outcomes
SearchReturned == pc = "done" /\ tool = "search_docs" /\ outcome.kind # "none"

NoMatchesFound ==
    OkOutput(<<"N","o"," ","m","a","t","c","h","e","s"," ","f","o","u","n","d">>)

\* the result the mapping gives an outcome, with text(bytes) the text a
\* result carries for captured bytes
SearchMapping(o, text(_)) ==
    IF o.kind = "launch"
    THEN (IF o.error = "NotFound" THEN RgaNotInstalled ELSE Io)
    ELSE IF o.status.kind = "signal" THEN SearchFailed(-1, text(o.err))
    ELSE CASE o.status.n = 0 -> OkOutput(text(o.out))
           [] o.status.n = 1 -> NoMatchesFound
           [] o.status.n = 127 -> RgaNotInstalled
           [] OTHER -> SearchFailed(o.status.n, text(o.err))

AsCaptured(bytes) == bytes

\* the bytes as text, each byte that is not valid UTF-8 replaced by U+FFFD
ReplacementText(bytes) ==
    [i \in DOMAIN bytes |-> IF bytes[i] = "xFF" THEN "uFFFD" ELSE bytes[i]]

BashCompleted == pc = "done" /\ tool = "bash" /\ outcome.kind = "exit"

SeparatorLine == <<"\n">> \o Flatten(<< <<"-","-","-">>, <<" ">>,
                     <<"s","t","d","e","r","r">>, <<" ">>, <<"-","-","-">> >>) \o <<"\n">>

\* C13. A shell execution whose process completed before the deadline
\* returns: for exit code 0, Ok of stdout followed by stderr, the separator
\* between them only when both are non-empty; for a non-zero code c,
\* CommandFailed(c, stderr) when stderr is non-empty and CommandFailed(c,
\* stdout) otherwise; for a signal, CommandFailed with code -1, which no
\* exit code gives.
C13_ClassifiedByStatus ==
    BashCompleted =>
        LET st == outcome.status
            out == outcome.out
            err == outcome.err
            diagnostic == IF err # <<>> THEN err ELSE out
        IN /\ (st.kind = "code" /\ st.n = 0) =>
                 ret = OkOutput(IF out # <<>> /\ err # <<>>
                                THEN out \o SeparatorLine \o err
                                ELSE out \o err)
           /\ (st.kind = "code" /\ st.n # 0) =>
                 /\ ret = CommandFailed(st.n, diagnostic)
                 /\ ret.code # -1
           /\ st.kind = "signal" => ret = CommandFailed(-1, diagnostic)

\* a process that failed with output on both pipes has been reported
C13_Witness ==
    /\ BashCompleted /\ outcome.status = Exited(2)
    /\ outcome.out # <<>> /\ outcome.err # <<>>
    /\ ret.kind = "CommandFailed"
\* ---- validation before execution
BashCalled == tool = "bash" /\ pc # "idle"

ValidationErrors == {"EmptyCommand", "ForbiddenPattern", "CommandNotAllowed"}

\* C14. In a shell-execution call a process is spawned only after
\* validate_command has returned Ok for the call's command; when validation
\* fails, the call returns that error, spawns no process, and the returned
\* call does nothing more.
C14_ValidatedBeforeSpawn ==
    /\ [](BashCalled =>
            LET v == validate_command(args.command) IN
            /\ (exec # NoExec \/ child # NoChild) => v = OkUnit
            /\ v # OkUnit =>
                 /\ pc = "done" /\ ret = v /\ ret.kind \in ValidationErrors
                 /\ exec = NoExec /\ child = NoChild)
    /\ [][(BashCalled /\ pc = "done") => (pc' = "idle" /\ exec' = NoExec)]_vars

\* a shell-execution call has returned a validation error without a spawn
C14_Witness ==
    /\ BashCalled /\ pc = "done" /\ ret.kind = "CommandNotAllowed"
    /\ exec = NoExec /\ child = NoChild
\* ---- direct execution or the shell
Spawned == BashCalled /\ exec # NoExec

ThroughShell == exec.program = <<"s","h">>

\* a pipe outside the quoted spans, the quotes tracked as the validator
\* tracks them: the command has more than one stage
HasUnquotedPipe(command) == Len(split_respecting_quotes(command, "|")) > 1

\* C15. A validated command is handed as a whole to `sh -c` if and only if
\* it contains an unquoted pipe; every other validated command is executed
\* directly, its first whitespace-delimited token the program and the
\* remaining tokens the argument vector.
C15_ShellIffUnquotedPipe ==
    Spawned =>
        /\ ThroughShell <=> HasUnquotedPipe(args.command)
        /\ ThroughShell => exec.argv = << <<"-","c">>, args.command >>
        /\ ~HasUnquotedPipe(args.command) =>
              /\ exec.program = Head(split_whitespace(args.command))
              /\ exec.argv = Tail(split_whitespace(args.command))
\* ---- the quote rule
\* whether a quote character toggles its mode, given the previous character
\* and whether the other mode is active: as the rule is stated, and as
\* amended
Toggles(rule, prev, other_active) ==
    IF rule = "stated"
    THEN ~(prev = "\\" /\ ~other_active)
    ELSE prev # "\\" /\ ~other_active

\* the stages a string is split into when the quote modes follow the rule
\* at every character and a delimiter splits exactly when no mode is active
RECURSIVE RuleSplitLoop(_, _, _, _, _, _, _, _)
RuleSplitLoop(rule, s, delimiter, prev, single, double, stage, done) ==
    IF s = <<>> THEN Append(done, stage)
    ELSE LET c == Head(s)
             sq == IF c = "'" /\ Toggles(rule, prev, double) THEN ~single ELSE single
             dq == IF c = "\"" /\ Toggles(rule, prev, single) THEN ~double ELSE double
         IN IF c = delimiter /\ ~sq /\ ~dq
            THEN RuleSplitLoop(rule, Tail(s), delimiter, c, sq, dq, <<>>, Append(done, stage))
            ELSE RuleSplitLoop(rule, Tail(s), delimiter, c, sq, dq, Append(stage, c), done)

RuleSplit(rule, s, delimiter) ==
    RuleSplitLoop(rule, s, delimiter, "NUL", FALSE, FALSE, <<>>, <<>>)

\* C16 as stated. split_respecting_quotes splits as the quote machine does in
\* which a quote character toggles its mode in every case except when the
\* previous character is a backslash and the other mode is inactive.
C16_Original ==
    SplitReturned => ret.stages = RuleSplit("stated", args.s, args.delimiter)

\* C16, amended. split_respecting_quotes splits as the quote machine does in
\* which a quote character toggles its mode exactly when the previous
\* character is not a backslash and the other mode is inactive, the
\* delimiter a split point exactly when neither mode is active.
C16_QuoteRule ==
    SplitReturned => ret.stages = RuleSplit("amended", args.s, args.delimiter)

\* a single quote inside double quotes has left the following pipe a split
\* point
C16_Witness ==
    /\ SplitReturned
    /\ args.s = <<"\"", "'", "\"", "|">>
    /\ ret.stages = << <<"\"", "'", "\"">>, <<>> >>
\* ---- the order of the validator's checks
\* the forbidden patterns in the order of the pattern list
PatternList ==
    << <<";">>, <<"&","&">>, <<"|","|">>, <<Backtick>>, <<"$","(">>,
       <<">">>, <<"<">>, <<">",">">>, <<"<","<">> >>

Occurs(s, p) == \E i \in 1..Len(s) : OccursAt(s, p, i)

\* C17. validate_command gives EmptyCommand for a command that is empty
\* after trimming; otherwise, for a command with a forbidden pattern, it
\* gives ForbiddenPattern carrying the first pattern of the list that
\* occurs in the command, whatever the command names; CommandNotAllowed is
\* given only to commands without a forbidden pattern.
C17_CheckOrder ==
    ValidateReturned =>
        /\ Blank(args.command) => ret = EmptyCommand
        /\ (~Blank(args.command) /\ ContainsForbidden(args.command)) =>
              \E k \in DOMAIN PatternList :
                  /\ ret = ForbiddenPattern(PatternList[k])
                  /\ Occurs(args.command, PatternList[k])
                  /\ \A j \in 1..(k - 1) : ~Occurs(args.command, PatternList[j])
        /\ ret.kind = "CommandNotAllowed" => ~ContainsForbidden(args.command)

\* a command with a forbidden pattern and a name that is not allowed has
\* been rejected for the pattern, the first of the two it contains
C17_Witness ==
    /\ ValidateReturned
    /\ args.command = <<"<", ";">>
    /\ ret = ForbiddenPattern(<<";">>)
\* ---- the stages as a whole
\* the delimiters of s outside the quoted spans, a span running from a quote
\* character to the quote that closes it, or to the end when none does
OutsideQuotes(s, delimiter) ==
    {i \in 1..Len(s) : s[i] = delimiter /\ ShellClasses(s)[i] \notin {"single", "double"}}

RECURSIVE JoinStages(_, _)
JoinStages(stages, delimiter) ==
    IF Len(stages) = 1 THEN stages[1]
    ELSE stages[1] \o <<delimiter>> \o JoinStages(Tail(stages), delimiter)

\* C18. split_respecting_quotes returns exactly (number of delimiters
\* outside quoted spans) + 1 stages; a trailing delimiter yields a final
\* empty stage and the empty string one empty stage; joining the stages
\* with the delimiter reproduces the input.
C18_StagesCountAndJoin ==
    SplitReturned =>
        LET s == args.s
            d == args.delimiter
        IN /\ Len(ret.stages) = Cardinality(OutsideQuotes(s, d)) + 1
           /\ (Len(s) \in OutsideQuotes(s, d)) => ret.stages[Len(ret.stages)] = <<>>
           /\ s = <<>> => ret.stages = << <<>> >>
           /\ JoinStages(ret.stages, d) = s
\* ---- saturation of the window
\* the file has been read and its window selected
WindowSelected == tool = "read_file" /\ pc = "copy"

LineCount == Len(FileLines(ContentRead))

\* the last line of the window asked for, an end_line omitted or greater
\* than the number of lines being the last line
LastAsked ==
    IF args.end_line.some /\ args.end_line.v <= LineCount
    THEN args.end_line.v ELSE LineCount

FromFirstLine == SubSeq(FileLines(ContentRead), 1, LastAsked)

StartBeyond == args.start_line.some /\ args.start_line.v > LineCount
EndBeyond == args.end_line.some /\ args.end_line.v > LineCount
StartInRange == args.start_line.some /\ args.start_line.v \in 1..LineCount

\* C19 as stated. For every start_line outside 1..(number of lines), 0 as
\* well as any greater value, the window begins at the first line; an
\* end_line greater than the number of lines is the last line.
C19_Original ==
    WindowSelected =>
        /\ ((args.start_line.some /\ args.start_line.v = 0) \/ StartBeyond)
              => copy.selected = FromFirstLine
        /\ (EndBeyond /\ StartInRange)
              => copy.selected = SubSeq(FileLines(ContentRead), args.start_line.v, LineCount)

\* C19, amended. A start_line of 0 is the first line; a start_line greater
\* than the number of lines selects no line; an end_line greater than the
\* number of lines is the last line.
C19_Saturation ==
    WindowSelected =>
        /\ (args.start_line.some /\ args.start_line.v = 0)
              => copy.selected = FromFirstLine
        /\ StartBeyond => copy.selected = <<>>
        /\ (EndBeyond /\ StartInRange)
              => copy.selected = SubSeq(FileLines(ContentRead), args.start_line.v, LineCount)

\* a start_line beyond the last line of a file with lines has selected none
C19_Witness ==
    /\ WindowSelected /\ StartBeyond /\ LineCount >= 2
    /\ ~args.end_line.some
    /\ copy.selected = <<>>
\* ---- commands without a command
\* the command has a stage that is not blank and whose first token is an
\* allow-listed command
HasAllowedStage(command) ==
    \E st \in Range(split_respecting_quotes(Trim(command), "|")) :
        ~Blank(st) /\ FirstToken(st) \in AllowSet

\* C20. Every command that a shell execution accepts and executes has at
\* least one non-empty stage, which names an allow-listed command; a
\* command of pipes and whitespace only is never handed to the shell.
C20_AcceptedNamesCommand == Spawned => HasAllowedStage(args.command)
\* ---- the boundary of the limits
WithinLimits == Len(WindowRead) <= 1000 /\ JoinedBytes(WindowRead) <= 51200

\* C21. File read appends the truncation marker only when the limits are
\* exceeded: whenever the selected lines number at most 1000 and, joined by
\* single newlines, take at most 51200 bytes, exactly 51200 bytes and a
\* single line included, the result carries no truncation marker.
C21_MarkerOnlyWhenExceeded ==
    (ReadReturned /\ WithinLimits) => ~ret.output.marker
====
